---- MODULE Spec2Model ----
(***************************************************************************)
(* Model of app.py, the DE Workshops/Parts Finder.                         *)
(*                                                                         *)
(* Strings are TLA+ strings; Len, \o and SubSeq act on them character by   *)
(* character.  Python's None is the empty tuple and a present number x is  *)
(* the one-element tuple <<x>>.  Distances are kept in hundredths of a     *)
(* kilometre, the resolution round(.., 2) leaves.  Labels that app.py      *)
(* writes with Polish diacritics are written without them.                 *)
(***************************************************************************)
EXTENDS Integers, Sequences, FiniteSets, TLC

\* pc: where the run is.  filt_workshops, filt_parts, include_tyres,
\* deduplicate: the sidebar's checkboxes.  lat0, lon0, disp: the geocoded
\* reference.  q: the Overpass query.  responses: the responses overpass_search
\* received, in order.  raised: the exception overpass_search raised, "" for
\* none.  elements, rows, df: the raw records, the list rows_from_elements
\* gathers and the frame it returns.  ui: what the page showed, in order.
\* havArgs, havResult: the arguments and the result of a call of haversine_km.
VARIABLES pc, filt_workshops, filt_parts, include_tyres, deduplicate,
          lat0, lon0, disp, q, responses, raised,
          elements, rows, df, ui, havArgs, havResult

filters == <<filt_workshops, filt_parts, include_tyres>>

vars == <<pc, filters, deduplicate, lat0, lon0, disp, q, responses, raised,
          elements, rows, df, ui, havArgs, havResult>>

\* Longest list of raw records the model feeds to rows_from_elements.
MaxElems == 3

None == <<>>
Some(x) == <<x>>

\* Python truthiness of an optional number: None and 0 are falsy.
Truthy(x) == x # None /\ x[1] # 0

\* Python's `a or b`.
Or(a, b) == IF Truthy(a) THEN a ELSE b

-----------------------------------------------------------------------------
(* Strings *)

\* The characters of the model in code point order.
Chars == "\t ()0123456789ABCDEFGHIJKLMNOPQRSTUVWXYZ_abcdefghijklmnopqrstuvwxyz"

UpperChars == "ABCDEFGHIJKLMNOPQRSTUVWXYZ"
LowerChars == "abcdefghijklmnopqrstuvwxyz"

\* The characters str.strip() removes, among those of the model.
Whitespace == {" ", "\t"}

CharAt(s, i) == SubSeq(s, i, i)

\* ord(c)
Ord(c) == CHOOSE i \in 1..Len(Chars) : CharAt(Chars, i) = c

\* Python's s < t on strings: lexicographic by code point.
RECURSIVE StrLess(_, _)
StrLess(s, t) ==
    IF Len(t) = 0 THEN FALSE
    ELSE IF Len(s) = 0 THEN TRUE
    ELSE IF CharAt(s, 1) = CharAt(t, 1)
         THEN StrLess(SubSeq(s, 2, Len(s)), SubSeq(t, 2, Len(t)))
         ELSE Ord(CharAt(s, 1)) < Ord(CharAt(t, 1))

LowerChar(c) ==
    IF \E i \in 1..Len(UpperChars) : CharAt(UpperChars, i) = c
    THEN CharAt(LowerChars, CHOOSE i \in 1..Len(UpperChars) : CharAt(UpperChars, i) = c)
    ELSE c

\* str.lower()
RECURSIVE lower(_)
lower(s) ==
    IF Len(s) = 0 THEN ""
    ELSE LowerChar(CharAt(s, 1)) \o lower(SubSeq(s, 2, Len(s)))

\* str.strip()
RECURSIVE strip(_)
strip(s) ==
    IF Len(s) = 0 THEN ""
    ELSE IF CharAt(s, 1) \in Whitespace THEN strip(SubSeq(s, 2, Len(s)))
    ELSE IF CharAt(s, Len(s)) \in Whitespace THEN strip(SubSeq(s, 1, Len(s) - 1))
    ELSE s

\* Python's `sub in s` on strings.
Contains(s, sub) ==
    \E i \in 1..(Len(s) - Len(sub) + 1) : SubSeq(s, i, i + Len(sub) - 1) = sub

\* " ".join(parts)
RECURSIVE join(_)
join(parts) ==
    IF Len(parts) = 0 THEN ""
    ELSE IF Len(parts) = 1 THEN parts[1]
    ELSE parts[1] \o " " \o join(Tail(parts))

\* [p for p in parts if p]
RECURSIVE NonEmpty(_)
NonEmpty(parts) ==
    IF Len(parts) = 0 THEN <<>>
    ELSE IF parts[1] = "" THEN NonEmpty(Tail(parts))
    ELSE <<parts[1]>> \o NonEmpty(Tail(parts))

-----------------------------------------------------------------------------
(* Helpers *)

\* tags.get(k, "").  A tag mapping is a function from the keys it holds to
\* their values.  tags.get(k) without a default gives None for a missing key;
\* app.py only compares that result with a non-empty literal or tests its
\* truth, and "" behaves like None in both.
get(tags, k) == IF k \in DOMAIN tags THEN tags[k] ELSE ""

\* R * c of haversine_km, rounded to two decimals, in hundredths of a km,
\* for the coordinates of the model (whole degrees).
GreatCircle ==
    ( <<52, 13,  0,  0>> :> 590874 @@ <<52, 13,  0, 13>> :> 578214
   @@ <<52, 13,  0, 14>> :> 578290 @@ <<52, 13, 52,  0>> :> 88877
   @@ <<52, 13, 52, 13>> :> 0      @@ <<52, 13, 52, 14>> :> 6846
   @@ <<52, 13, 53,  0>> :> 88574  @@ <<52, 13, 53, 13>> :> 11120
   @@ <<52, 13, 53, 14>> :> 13018 )

\* haversine_km giving 0 where a coordinate is missing.
haversine_kmZeroIfMissing(lat1, lon1, lat2, lon2) ==
    IF None \in {lat1, lon1, lat2, lon2} THEN Some(0)
    ELSE Some(GreatCircle[<<lat1[1], lon1[1], lat2[1], lon2[1]>>])

haversine_km(lat1, lon1, lat2, lon2) ==
    IF None \in {lat1, lon1, lat2, lon2} THEN None
    ELSE Some(GreatCircle[<<lat1[1], lon1[1], lat2[1], lon2[1]>>])

RECURSIVE pick(_, _)
pick(d, keys) ==
    IF Len(keys) = 0 THEN ""
    ELSE IF get(d, keys[1]) # "" THEN get(d, keys[1])
    ELSE pick(d, Tail(keys))

norm(s) == strip(s)

full_address(tags) ==
    join(NonEmpty(<<get(tags, "addr:street"), get(tags, "addr:housenumber")>>))

-----------------------------------------------------------------------------
(* rows_from_elements *)

\* A raw record is [tags, lat, lon, center]: lat and lon are None or a
\* number, center is None or <<[lat |-> .., lon |-> ..]>>.

\* el.get("lat") or (el.get("center", {}) or {}).get("lat")
el_lat(el) == Or(el.lat, IF el.center = None THEN None ELSE el.center[1].lat)

\* el.get("lon") or (el.get("center", {}) or {}).get("lon")
el_lon(el) == Or(el.lon, IF el.center = None THEN None ELSE el.center[1].lon)

el_name(tags) == IF norm(get(tags, "name")) # "" THEN norm(get(tags, "name")) ELSE "(brak nazwy)"
el_street(tags) == norm(get(tags, "addr:street"))
el_nr(tags) == norm(get(tags, "addr:housenumber"))
el_kod(tags) == norm(get(tags, "addr:postcode"))
el_miasto(tags) == norm(pick(tags, <<"addr:city", "addr:town", "addr:village">>))
el_phone(tags) == norm(pick(tags, <<"contact:phone", "phone">>))
el_www(tags) == norm(pick(tags, <<"contact:website", "website">>))

RepairWords == {"car", "vehicle", "auto", "automobile", "cars"}
ServiceWords == {"vehicle", "repair", "service", "yes"}

\* s of the shop=car branch
ServiceText(tags) ==
    get(tags, "service") \o " " \o get(tags, "service:vehicle") \o " "
        \o get(tags, "service:vehicle:car_repair")

\* typ with the tyre rule tried first.
typTyresFirst(tags) ==
    IF get(tags, "shop") = "tyres" THEN "Wulkanizacja"
    ELSE IF get(tags, "shop") = "car_repair" \/ get(tags, "amenity") = "car_repair"
    THEN "Warsztat"
    ELSE IF get(tags, "shop") = "repair"
            /\ \E k \in RepairWords : Contains(get(tags, "repair"), k)
    THEN "Naprawy (shop=repair)"
    ELSE IF get(tags, "shop") = "car"
    THEN (IF \E x \in ServiceWords : Contains(ServiceText(tags), x)
          THEN "Salon z serwisem" ELSE "Inne")
    ELSE IF get(tags, "shop") = "car_parts" THEN "Sklep z czesciami"
    ELSE "Inne"

\* typ
typ(tags) ==
    IF get(tags, "shop") = "car_repair" \/ get(tags, "amenity") = "car_repair"
    THEN "Warsztat"
    ELSE IF get(tags, "shop") = "repair"
            /\ \E k \in RepairWords : Contains(get(tags, "repair"), k)
    THEN "Naprawy (shop=repair)"
    ELSE IF get(tags, "shop") = "car"
    THEN (IF \E x \in ServiceWords : Contains(ServiceText(tags), x)
          THEN "Salon z serwisem" ELSE "Inne")
    ELSE IF get(tags, "shop") = "tyres" THEN "Wulkanizacja"
    ELSE IF get(tags, "shop") = "car_parts" THEN "Sklep z czesciami"
    ELSE "Inne"

\* key made of the name alone.
DedupKeyNameOnly(tags) == <<lower(el_name(tags))>>

\* key without .lower().
DedupKeyCaseSensitive(tags) ==
    <<el_name(tags), el_street(tags), el_nr(tags), el_kod(tags), el_miasto(tags)>>

\* key
DedupKey(tags) ==
    <<lower(el_name(tags)), lower(el_street(tags)), lower(el_nr(tags)),
      lower(el_kod(tags)), lower(el_miasto(tags))>>

\* dist
el_dist(el, rlat, rlon) ==
    IF Truthy(el_lat(el)) /\ Truthy(el_lon(el))
    THEN haversine_km(rlat, rlon, el_lat(el), el_lon(el))
    ELSE None

\* The dict appended to rows.
Row(el, rlat, rlon) ==
    [ Nazwa   |-> el_name(el.tags),
      Ulica   |-> el_street(el.tags),
      Nr      |-> el_nr(el.tags),
      Kod     |-> el_kod(el.tags),
      Miasto  |-> el_miasto(el.tags),
      Adres   |-> full_address(el.tags),
      Telefon |-> el_phone(el.tags),
      WWW     |-> el_www(el.tags),
      Lat     |-> el_lat(el),
      Lon     |-> el_lon(el),
      Typ     |-> typ(el.tags),
      Dystans |-> el_dist(el, rlat, rlon) ]

\* One pass of the for loop decides whether el is skipped.
Skipped(el, seen, do_dedupe) == do_dedupe /\ DedupKey(el.tags) \in seen

\* The for loop over elements, from position i, with the rows and the keys
\* gathered so far.
RECURSIVE RowsLoop(_, _, _, _, _, _, _)
RowsLoop(els, i, acc, seen, rlat, rlon, do_dedupe) ==
    IF i > Len(els) THEN acc
    ELSE IF Skipped(els[i], seen, do_dedupe)
    THEN RowsLoop(els, i + 1, acc, seen, rlat, rlon, do_dedupe)
    ELSE RowsLoop(els, i + 1, Append(acc, Row(els[i], rlat, rlon)),
                  IF do_dedupe THEN seen \cup {DedupKey(els[i].tags)} ELSE seen,
                  rlat, rlon, do_dedupe)

\* Order of one sort column with na_position="last".
NullsLastLess(a, b) == a # None /\ (b = None \/ a[1] < b[1])

\* Order of a sort on the distance column alone.
SortLessDistanceOnly(a, b) == NullsLastLess(a.Dystans, b.Dystans)

\* Order of sort_values(["Dystans (km)", "Miasto", "Nazwa"], na_position="last").
SortLess(a, b) ==
    \/ NullsLastLess(a.Dystans, b.Dystans)
    \/ /\ a.Dystans = b.Dystans
       /\ \/ StrLess(a.Miasto, b.Miasto)
          \/ a.Miasto = b.Miasto /\ StrLess(a.Nazwa, b.Nazwa)

\* r put into the sorted list s behind every row that is not greater.
RECURSIVE Insert(_, _)
Insert(s, r) ==
    IF Len(s) = 0 THEN <<r>>
    ELSE IF SortLess(r, s[1]) THEN <<r>> \o s
    ELSE <<s[1]>> \o Insert(Tail(s), r)

RECURSIVE InsertAll(_, _)
InsertAll(rs, s) ==
    IF Len(rs) = 0 THEN s ELSE InsertAll(Tail(rs), Insert(s, rs[1]))

\* df.sort_values(...).reset_index(drop=True): a sort on several columns is
\* a stable lexicographic sort.
sort_values(rs) == InsertAll(rs, <<>>)

\* The list `rows` at the end of the loop.
rows_list(els, rlat, rlon, do_dedupe) == RowsLoop(els, 1, <<>>, {}, rlat, rlon, do_dedupe)

rows_from_elements(els, rlat, rlon, do_dedupe) ==
    LET rs == rows_list(els, rlat, rlon, do_dedupe)
    IN IF rs = <<>> THEN <<>> ELSE sort_values(rs)

-----------------------------------------------------------------------------
(* Inputs *)

NoTags == [k \in {} |-> ""]

El(tags, lat, lon, center) == [tags |-> tags, lat |-> lat, lon |-> lon, center |-> center]

Center(lat, lon) == <<[lat |-> lat, lon |-> lon]>>

\* Records that share keys, tie in the sort or lack coordinates: the lists
\* given to rows_from_elements are drawn from these.
ListPool ==
    { El(("name" :> "Ab") @@ ("addr:street" :> "S") @@ ("addr:city" :> "B")
            @@ ("phone" :> "1") @@ ("shop" :> "car_repair"),
         Some(52), Some(14), None),
      El(("name" :> "AB") @@ ("addr:street" :> "s ") @@ ("addr:town" :> "b")
            @@ ("phone" :> "2") @@ ("shop" :> "tyres"),
         None, None, Center(Some(53), Some(13))),
      El(("name" :> "Ab") @@ ("addr:street" :> "T") @@ ("addr:city" :> "B"),
         Some(52), Some(14), None),
      El(("addr:city" :> "A") @@ ("shop" :> "car_parts"), None, None, None),
      El(("name" :> "Ac") @@ ("addr:city" :> "A"), Some(53), Some(14), None),
      El(NoTags, None, Some(13), None),
      El(("name" :> "aB") @@ ("addr:street" :> "s") @@ ("addr:city" :> "b")
            @@ ("phone" :> "3") @@ ("shop" :> "car"),
         Some(53), Some(14), None) }

RECURSIVE ListsUpTo(_, _)
ListsUpTo(S, n) ==
    IF n = 0 THEN {<<>>}
    ELSE ListsUpTo(S, n - 1)
         \cup {Append(l, e) : l \in {m \in ListsUpTo(S, n - 1) : Len(m) = n - 1}, e \in S}

\* Tag mappings that exercise the classifier.
ClassifyTags ==
    { ("shop" :> a) @@ ("amenity" :> b) @@ ("repair" :> c) @@ ("service" :> d)
         @@ ("service:vehicle" :> e) @@ ("service:vehicle:car_repair" :> f) :
        a \in {"", "car_repair", "repair", "car", "tyres", "car_parts"},
        b \in {"", "car_repair"},
        c \in {"", "car", "scars", "bike"},
        d \in {"", "repair", "no"},
        e \in {"", "yes"},
        f \in {"", "yes"} }

\* Tag mappings that exercise the trimmed fields and the combined address.
AddressTags ==
    { ("name" :> a) @@ ("addr:street" :> b) @@ ("addr:housenumber" :> c)
         @@ ("addr:postcode" :> d) :
        a \in {"", " ", " A ", "a\t"},
        b \in {"", " S", "  ", "S t"},
        c \in {"", "1 ", " "},
        d \in {"", " 10"} }

\* Tag mappings that exercise the fallback keys of pick.
PickTags ==
    { ("addr:city" :> a) @@ ("addr:town" :> b) @@ ("addr:village" :> c)
         @@ ("contact:phone" :> d) @@ ("phone" :> e)
         @@ ("contact:website" :> f) @@ ("website" :> g) :
        a \in {"", " B"}, b \in {"", "T "}, c \in {"", "V"},
        d \in {"", " 1"}, e \in {"", "2"},
        f \in {"", "w "}, g \in {"", "x"} }

\* Records that exercise the two places a coordinate can be in.
CoordElems ==
    { El(NoTags, la, lo, c) :
        la \in {None, Some(0), Some(52), Some(53)},
        lo \in {None, Some(0), Some(13), Some(14)},
        c \in {None, Center(Some(53), Some(14)), Center(None, Some(13))} }

SingleElems ==
    {El(t, Some(52), Some(14), None) : t \in ClassifyTags \cup AddressTags \cup PickTags}
        \cup CoordElems

\* The lists of raw records the model passes to rows_from_elements.
InputLists == ListsUpTo(ListPool, MaxElems) \cup {<<e>> : e \in SingleElems}

-----------------------------------------------------------------------------
(* The functions called on their own *)

Unset ==
    /\ disp = None /\ q = None /\ responses = <<>> /\ raised = "" /\ ui = <<>>
    /\ rows = <<>> /\ df = None /\ havResult = None

InitRows ==
    /\ pc = "call_rows"
    /\ filt_workshops = TRUE /\ filt_parts = TRUE /\ include_tyres = TRUE
    /\ elements \in InputLists
    /\ lat0 \in {None, Some(52)}
    /\ lon0 \in {None, Some(13)}
    /\ Len(elements) > 1 => ((lat0 = None) <=> (lon0 = None))
    /\ deduplicate \in BOOLEAN
    /\ havArgs = <<>>
    /\ Unset

InitHaversine ==
    /\ pc = "call_haversine"
    /\ filt_workshops = TRUE /\ filt_parts = TRUE /\ include_tyres = TRUE
    /\ havArgs \in {None, Some(52)} \X {None, Some(13)}
                     \X {None, Some(0), Some(52), Some(53)}
                     \X {None, Some(0), Some(13), Some(14)}
    /\ elements = <<>> /\ lat0 = None /\ lon0 = None /\ deduplicate = TRUE
    /\ Unset

InitPipeline == InitRows \/ InitHaversine

\* df = rows_from_elements(elements, lat0, lon0, do_dedupe=deduplicate)
CallRowsFromElements ==
    /\ pc = "call_rows"
    /\ rows' = rows_list(elements, lat0, lon0, deduplicate)
    /\ df' = Some(rows_from_elements(elements, lat0, lon0, deduplicate))
    /\ pc' = "rows_returned"
    /\ UNCHANGED <<lat0, lon0, disp, deduplicate, q, responses, raised, elements,
                   ui, havArgs, havResult, filters>>

\* haversine_km(lat1, lon1, lat2, lon2)
CallHaversine ==
    /\ pc = "call_haversine"
    /\ havResult' = Some(haversine_km(havArgs[1], havArgs[2], havArgs[3], havArgs[4]))
    /\ pc' = "haversine_returned"
    /\ UNCHANGED <<lat0, lon0, disp, deduplicate, q, responses, raised, elements,
                   rows, df, ui, havArgs, filters>>

NextPipeline == CallRowsFromElements \/ CallHaversine

SpecPipeline == InitPipeline /\ [][NextPipeline]_vars

-----------------------------------------------------------------------------
(* Geocoding *)

\* The text of the sidebar's location field.
Place == "Berlin"

\* What the request to Nominatim can come to: an exception (no connection,
\* a timeout, a body that is not JSON, an item without "lat"), or a response
\* with a status and the items of its JSON list.
NominatimOutcomes ==
    { [exception |-> TRUE, status |-> 0, items |-> <<>>],
      [exception |-> FALSE, status |-> 500, items |-> <<>>],
      [exception |-> FALSE, status |-> 200, items |-> <<>>],
      [exception |-> FALSE, status |-> 200,
       items |-> <<[lat |-> 52, lon |-> 13, display_name |-> "Berlin DE"]>>],
      [exception |-> FALSE, status |-> 200,
       items |-> <<[lat |-> 52, lon |-> 13, display_name |-> "Berlin DE"],
                   [lat |-> 53, lon |-> 14, display_name |-> "Bernau"]>>] }

PhotonFeatures ==
    { [countrycode |-> "AT", coordinates |-> <<14, 53>>, name |-> "Wien"],
      [countrycode |-> "DE", coordinates |-> <<13, 52>>, name |-> ""],
      [countrycode |-> "de", coordinates |-> <<13>>, name |-> "Bonn"] }

\* What the request to Photon can come to.
PhotonOutcomes ==
    { [exception |-> TRUE, status |-> 0, features |-> <<>>],
      [exception |-> FALSE, status |-> 500, features |-> <<>>] }
    \cup { [exception |-> FALSE, status |-> 200, features |-> fs] :
              fs \in ListsUpTo(PhotonFeatures, 2) }

\* The for loop over the Photon features.
RECURSIVE PhotonLoop(_, _)
PhotonLoop(feats, qs) ==
    IF Len(feats) = 0 THEN <<None, None, None>>
    ELSE IF lower(feats[1].countrycode) # "de" THEN PhotonLoop(Tail(feats), qs)
    ELSE IF Len(feats[1].coordinates) >= 2
    THEN <<Some(feats[1].coordinates[2]), Some(feats[1].coordinates[1]),
           Some(IF feats[1].name # "" THEN feats[1].name ELSE qs)>>
    ELSE PhotonLoop(Tail(feats), qs)

geocode_place(qs, nom, ph) ==
    IF ~nom.exception /\ nom.status = 200 /\ nom.items # <<>>
    THEN <<Some(nom.items[1].lat), Some(nom.items[1].lon), Some(nom.items[1].display_name)>>
    ELSE IF ~ph.exception /\ ph.status = 200
    THEN PhotonLoop(ph.features, qs)
    ELSE <<None, None, None>>

-----------------------------------------------------------------------------
(* Overpass *)

\* The blocks of the query, named by the checkbox that adds them; no block
\* makes the empty query.
build_overpass_query(want_workshops, want_parts, want_tyres) ==
    (IF want_workshops THEN <<"workshops">> ELSE <<>>)
        \o (IF want_parts THEN <<"parts">> ELSE <<>>)
        \o (IF want_tyres THEN <<"tyres">> ELSE <<>>)

\* The records the model's Overpass answers hold.
FlowPool ==
    { El(("name" :> "Ab") @@ ("addr:city" :> "B"), Some(52), Some(14), None),
      El(("name" :> "AB") @@ ("addr:city" :> "b"), None, None, Center(Some(53), Some(13))) }

\* The responses of the Overpass endpoint: a status and a body, which is
\* JSON or not and, when JSON, holds "elements" or not.
OverpassResponses ==
    { [status |-> 429, json |-> FALSE, has_elements |-> FALSE, elements |-> <<>>],
      [status |-> 500, json |-> FALSE, has_elements |-> FALSE, elements |-> <<>>],
      [status |-> 200, json |-> FALSE, has_elements |-> FALSE, elements |-> <<>>],
      [status |-> 200, json |-> TRUE, has_elements |-> FALSE, elements |-> <<>>] }
    \cup { [status |-> 200, json |-> TRUE, has_elements |-> TRUE, elements |-> l] :
              l \in ListsUpTo(FlowPool, MaxElems) }

\* A retry on every status that is not 200.
RateLimitedAnyError(r) == r.status # 200

\* if r.status_code == 429
RateLimited(r) == r.status = 429

\* A search that gives no records where it should raise.
SearchResultSwallow(r) ==
    IF r.status >= 400 \/ ~r.json THEN [raised |-> "", elements |-> <<>>]
    ELSE [raised |-> "", elements |-> IF r.has_elements THEN r.elements ELSE <<>>]

\* r.raise_for_status(); return r.json().get("elements", []): the exception
\* raised ("" for none) and the value returned.
SearchResult(r) ==
    IF r.status >= 400 THEN [raised |-> "HTTPError", elements |-> <<>>]
    ELSE IF ~r.json THEN [raised |-> "JSONDecodeError", elements |-> <<>>]
    ELSE [raised |-> "", elements |-> IF r.has_elements THEN r.elements ELSE <<>>]

-----------------------------------------------------------------------------
(* The search flow of one run of the script *)

\* A flow that never takes geocoding to have failed.
GeocodeFailedNever(lat) == FALSE

\* if not lat0
GeocodeFailed(lat) == ~Truthy(lat)

Init ==
    /\ pc = "idle"
    /\ filt_workshops \in BOOLEAN /\ filt_parts \in BOOLEAN /\ include_tyres \in BOOLEAN
    /\ deduplicate \in BOOLEAN
    /\ lat0 = None /\ lon0 = None
    /\ elements = <<>> /\ havArgs = <<>>
    /\ Unset

\* run_btn: geocode_place(place), and the error and st.stop() when it fails.
Geocode ==
    /\ pc = "idle"
    /\ \E nom \in NominatimOutcomes, ph \in PhotonOutcomes :
          LET g == geocode_place(Place, nom, ph) IN
          /\ lat0' = g[1] /\ lon0' = g[2] /\ disp' = g[3]
          /\ IF GeocodeFailed(g[1])
             THEN ui' = Append(ui, "error_geocode") /\ pc' = "stopped"
             ELSE ui' = Append(ui, "success") /\ pc' = "geocoded"
    /\ UNCHANGED <<deduplicate, q, responses, raised, elements, rows, df,
                   havArgs, havResult, filters>>

\* q = build_overpass_query(...), and the warning and st.stop() when it is empty.
BuildQuery ==
    /\ pc = "geocoded"
    /\ q' = Some(build_overpass_query(filt_workshops, filt_parts, include_tyres))
    /\ IF q'[1] = <<>>
       THEN ui' = Append(ui, "warning_no_category") /\ pc' = "stopped"
       ELSE ui' = ui /\ pc' = "search"
    /\ UNCHANGED <<lat0, lon0, disp, deduplicate, responses, raised, elements, rows, df,
                   havArgs, havResult, filters>>

\* overpass_search: the first requests.post.
Post ==
    /\ pc = "search"
    /\ \E r \in OverpassResponses :
          /\ responses' = Append(responses, r)
          /\ pc' = IF RateLimited(r) THEN "retry" ELSE "check"
    /\ UNCHANGED <<lat0, lon0, disp, deduplicate, q, raised, elements, rows, df, ui,
                   havArgs, havResult, filters>>

\* overpass_search: time.sleep(2) and the second requests.post.
Retry ==
    /\ pc = "retry"
    /\ \E r \in OverpassResponses :
          /\ responses' = Append(responses, r)
          /\ pc' = "check"
    /\ UNCHANGED <<lat0, lon0, disp, deduplicate, q, raised, elements, rows, df, ui,
                   havArgs, havResult, filters>>

\* overpass_search returns or raises; the flow's except clauses show the
\* error and st.stop().
Fetched ==
    /\ pc = "check"
    /\ LET res == SearchResult(responses[Len(responses)]) IN
          /\ raised' = res.raised
          /\ IF res.raised = "HTTPError"
             THEN /\ ui' = Append(ui, "error_overpass") /\ pc' = "stopped"
                  /\ UNCHANGED elements
             ELSE IF res.raised # ""
             THEN /\ ui' = Append(ui, "error_unexpected") /\ pc' = "stopped"
                  /\ UNCHANGED elements
             ELSE /\ ui' = ui /\ pc' = "fetched"
                  /\ elements' = res.elements
    /\ UNCHANGED <<lat0, lon0, disp, deduplicate, q, responses, rows, df,
                   havArgs, havResult, filters>>

\* df = rows_from_elements(...), the subheader, and the notice of no results
\* or the table, the map and the downloads.
Show ==
    /\ pc = "fetched"
    /\ rows' = rows_list(elements, lat0, lon0, deduplicate)
    /\ df' = Some(rows_from_elements(elements, lat0, lon0, deduplicate))
    /\ ui' = ui \o <<"results", IF df'[1] = <<>> THEN "info_empty" ELSE "table">>
    /\ pc' = "shown"
    /\ UNCHANGED <<lat0, lon0, disp, deduplicate, q, responses, raised, elements,
                   havArgs, havResult, filters>>

Next == Geocode \/ BuildQuery \/ Post \/ Retry \/ Fetched \/ Show

Spec == Init /\ [][Next]_vars

-----------------------------------------------------------------------------
(* Properties of rows_from_elements and haversine_km, under SpecPipeline *)

\* The ResultSet a call returned.
Out == df[1]

Returned == pc = "rows_returned"

\* The record rows_from_elements makes of the i-th raw record.
RowOf(i) == Row(elements[i], lat0, lon0)

\* The DedupKey of a record: its lower-cased name, street, house number,
\* postal code and city.
KeyOfRow(r) == <<lower(r.Nazwa), lower(r.Ulica), lower(r.Nr), lower(r.Kod), lower(r.Miasto)>>

\* The raw records that are the first of their DedupKey in input order.
FirstOfKey ==
    {i \in 1..Len(elements) :
        \A j \in 1..(i - 1) : KeyOfRow(RowOf(j)) # KeyOfRow(RowOf(i))}

\* C1: with do_dedupe enabled the output holds no two records of equal
\* DedupKey and holds, for each DedupKey of the input, exactly the record made
\* of the first raw record with that key; with do_dedupe disabled the output
\* is as long as the input.
C1_DedupFirstWins ==
    Returned =>
        IF deduplicate
        THEN /\ \A k, l \in 1..Len(Out) : k # l => KeyOfRow(Out[k]) # KeyOfRow(Out[l])
             /\ Len(Out) = Cardinality(FirstOfKey)
             /\ \A i \in FirstOfKey : \E k \in 1..Len(Out) : Out[k] = RowOf(i)
        ELSE Len(Out) = Len(elements)

\* A later record with the key of an earlier one, and other contents, was dropped.
C1_Witness ==
    /\ Returned /\ deduplicate /\ Len(elements) = 3 /\ Len(Out) = 2
    /\ \E i, j \in 1..Len(elements) :
          /\ i < j
          /\ KeyOfRow(RowOf(i)) = KeyOfRow(RowOf(j))
          /\ RowOf(i) # RowOf(j)
          /\ \A k \in 1..Len(Out) : Out[k] # RowOf(j)

\* Two records tie when they agree on distance, city and name.
Tie(a, b) == a.Dystans = b.Dystans /\ a.Miasto = b.Miasto /\ a.Nazwa = b.Nazwa

\* The records of s that tie with r, in the order they have in s.
TieClass(s, r) == SelectSeq(s, LAMBDA x : Tie(x, r))

\* C2: the ResultSet is ordered by distance ascending, then city, then name;
\* every record of null distance comes after every record of non-null
\* distance; records that tie on the three keys keep their input order.
C2_SortedStable ==
    Returned =>
        /\ Len(Out) = Len(rows)
        /\ \A k, l \in 1..Len(Out) : k < l =>
              /\ Out[k].Dystans = None => Out[l].Dystans = None
              /\ (Out[k].Dystans # None /\ Out[l].Dystans # None)
                    => Out[k].Dystans[1] <= Out[l].Dystans[1]
              /\ Out[k].Dystans = Out[l].Dystans
                    => ~StrLess(Out[l].Miasto, Out[k].Miasto)
              /\ (Out[k].Dystans = Out[l].Dystans /\ Out[k].Miasto = Out[l].Miasto)
                    => ~StrLess(Out[l].Nazwa, Out[k].Nazwa)
        /\ \A i \in 1..Len(rows) : TieClass(Out, rows[i]) = TieClass(rows, rows[i])

\* A record of null distance that came first in the input is behind two
\* different records that tie, and a city decided an order.
C2_Witness ==
    /\ Returned /\ Len(Out) = 3
    /\ rows[1].Dystans = None /\ Out[3] = rows[1]
    /\ Tie(Out[1], Out[2]) /\ Out[1] # Out[2]
    /\ Out[1] = rows[2] /\ Out[2] = rows[3]

\* Which of the six rules a tag mapping matches, in the order of the claim.
RuleMatches(tags) ==
    << get(tags, "shop") = "car_repair" \/ get(tags, "amenity") = "car_repair",
       get(tags, "shop") = "repair"
          /\ \E w \in {"car", "auto", "vehicle", "automobile", "cars"} :
                 Contains(get(tags, "repair"), w),
       get(tags, "shop") = "car"
          /\ \E w \in {"vehicle", "repair", "service", "yes"} :
                 Contains(get(tags, "service") \o " " \o get(tags, "service:vehicle")
                             \o " " \o get(tags, "service:vehicle:car_repair"), w),
       get(tags, "shop") = "tyres",
       get(tags, "shop") = "car_parts",
       TRUE >>

RuleLabels ==
    << "Warsztat", "Naprawy (shop=repair)", "Salon z serwisem", "Wulkanizacja",
       "Sklep z czesciami", "Inne" >>

FirstRule(tags) ==
    CHOOSE n \in 1..6 : RuleMatches(tags)[n] /\ \A m \in 1..(n - 1) : ~RuleMatches(tags)[m]

\* C3: the category of a record is the label of the first rule its tags
\* match, in the fixed order Workshop, Repairs, Dealership with service, Tyre
\* service, Parts shop, Other.
C3_FirstRuleWins ==
    (Returned /\ Len(rows) = Len(elements)) =>
        \A i \in 1..Len(rows) : rows[i].Typ = RuleLabels[FirstRule(elements[i].tags)]

\* A record that matches the Workshop rule and the Tyre service rule came
\* out a Workshop.
C3_Witness ==
    /\ Returned /\ Len(elements) = 1 /\ Len(Out) = 1
    /\ RuleMatches(elements[1].tags)[1] /\ RuleMatches(elements[1].tags)[4]
    /\ Out[1].Typ = "Warsztat"

\* C4: the distance of a record is null when the reference coordinate or the
\* record's latitude or longitude is missing, and haversine_km gives null
\* when any of its arguments is null.
C4_NullDistance ==
    /\ (pc = "haversine_returned"
          /\ \E n \in 1..4 : havArgs[n] = None) => havResult[1] = None
    /\ Returned =>
          \A k \in 1..Len(Out) :
              (lat0 = None \/ lon0 = None \/ Out[k].Lat = None \/ Out[k].Lon = None)
                  => Out[k].Dystans = None

\* A record with a latitude and no longitude, against a full reference.
C4_Witness ==
    /\ Returned /\ lat0 # None /\ lon0 # None /\ Len(Out) = 1
    /\ Out[1].Lat # None /\ Out[1].Lon = None /\ Out[1].Dystans = None

Trimmed(s) ==
    s = "" \/ (CharAt(s, 1) \notin Whitespace /\ CharAt(s, Len(s)) \notin Whitespace)

\* C7: every string field of a record has no leading or trailing whitespace,
\* and the combined address is the street and house-number fields joined by
\* one space, each left out when empty.
C7_TrimmedFields ==
    Returned =>
        \A k \in 1..Len(Out) :
            /\ \A s \in {Out[k].Nazwa, Out[k].Ulica, Out[k].Nr, Out[k].Kod, Out[k].Miasto,
                         Out[k].Adres, Out[k].Telefon, Out[k].WWW} : Trimmed(s)
            /\ Out[k].Adres =
                  (IF Out[k].Ulica = "" THEN Out[k].Nr
                   ELSE IF Out[k].Nr = "" THEN Out[k].Ulica
                   ELSE Out[k].Ulica \o " " \o Out[k].Nr)

\* The letters c and d are the same up to case.
SameLetter(c, d) ==
    \/ c = d
    \/ \E n \in 1..Len(UpperChars) :
          {c, d} = {CharAt(UpperChars, n), CharAt(LowerChars, n)}

\* The strings s and t differ only in letter casing.
SameModuloCase(s, t) ==
    Len(s) = Len(t) /\ \A n \in 1..Len(s) : SameLetter(CharAt(s, n), CharAt(t, n))

KeyTags ==
    {"name", "addr:street", "addr:housenumber", "addr:postcode",
     "addr:city", "addr:town", "addr:village"}

\* The tags the DedupKey is made of differ only in letter casing.
CaseVariants(t, u) == \A k \in KeyTags : SameModuloCase(get(t, k), get(u, k))

\* The DedupKey fields of the records r and u differ only in letter casing.
RowVariants(r, u) ==
    /\ SameModuloCase(r.Nazwa, u.Nazwa) /\ SameModuloCase(r.Ulica, u.Ulica)
    /\ SameModuloCase(r.Nr, u.Nr) /\ SameModuloCase(r.Kod, u.Kod)
    /\ SameModuloCase(r.Miasto, u.Miasto)

\* The first raw record whose record is that of the i-th up to casing.
FirstVariant(i) ==
    CHOOSE m \in 1..i :
        /\ RowVariants(RowOf(m), RowOf(i))
        /\ \A n \in 1..(m - 1) : ~RowVariants(RowOf(n), RowOf(i))

\* C8: raw records whose name, street, house number, postal code and city
\* tags differ only in letter casing have equal DedupKeys, and with
\* deduplication enabled the output holds one record for them, the record of
\* the first of them.
C8_KeyIgnoresCase ==
    Returned =>
        \A i, j \in 1..Len(elements) :
            (i < j /\ CaseVariants(elements[i].tags, elements[j].tags)) =>
                /\ DedupKey(elements[i].tags) = DedupKey(elements[j].tags)
                /\ deduplicate =>
                      /\ Cardinality({k \in 1..Len(Out) : RowVariants(Out[k], RowOf(i))}) = 1
                      /\ \E k \in 1..Len(Out) : Out[k] = RowOf(FirstVariant(i))

\* Two records whose tags differ in casing, and in casing only, went in and
\* the record of the first came out alone.
C8_Witness ==
    /\ Returned /\ deduplicate /\ Len(elements) = 2 /\ Len(Out) = 1
    /\ get(elements[1].tags, "name") # get(elements[2].tags, "name")
    /\ CaseVariants(elements[1].tags, elements[2].tags)
    /\ Out[1] = RowOf(1) /\ RowOf(1) # RowOf(2)

\* C9: a record's latitude (longitude) is its direct one whenever it carries
\* one, and the one under "center" only when the direct one is absent; its
\* distance is computed from the coordinates so chosen.
C9_DirectPreferred ==
    (Returned /\ Len(rows) = Len(elements)) =>
        \A i \in 1..Len(rows) :
            LET el == elements[i]
                clat == IF el.center = None THEN None ELSE el.center[1].lat
                clon == IF el.center = None THEN None ELSE el.center[1].lon
            IN /\ rows[i].Lat = (IF el.lat # None THEN el.lat ELSE clat)
               /\ rows[i].Lon = (IF el.lon # None THEN el.lon ELSE clon)
               /\ rows[i].Dystans = haversine_km(lat0, lon0, rows[i].Lat, rows[i].Lon)

-----------------------------------------------------------------------------
(* Properties of the search flow, under Spec *)

\* Geocoding has run and returned the not-found sentinel.
NotFound == pc # "idle" /\ lat0 = None /\ lon0 = None /\ disp = None

\* C5: when geocoding returns the not-found sentinel, no Overpass query is
\* built or sent and rows_from_elements is never invoked; the run ends in the
\* error shown to the user.
C5_GeocodeFailureStops ==
    NotFound =>
        /\ q = None /\ responses = <<>> /\ df = None /\ rows = <<>>
        /\ pc = "stopped" /\ ui = <<"error_geocode">>

\* Nominatim and Photon both failed and the run has stopped on the error.
C5_Witness == NotFound /\ pc = "stopped" /\ ui = <<"error_geocode">>

\* overpass_search has finished with a failure of the network layer: an
\* error status (a 429 that persisted through the retry among them) or a
\* body that is not JSON.
FetchFailed ==
    /\ pc \notin {"idle", "geocoded", "search", "retry", "check"}
    /\ responses # <<>>
    /\ \/ responses[Len(responses)].status >= 400
       \/ ~responses[Len(responses)].json

\* What the page shows for a fetch that returned no records.
EmptyOutcome == df = Some(<<>>) /\ ui = <<"success", "results", "info_empty">>

\* C6, as claimed: a failed fetch comes to the outcome of a successful fetch
\* of zero records, an empty ResultSet, and no exception is handled in the flow.
C6_FailureAsEmpty == FetchFailed => (EmptyOutcome /\ raised = "")

\* C6, amended: a failed fetch raises in overpass_search, the flow catches the
\* exception, shows an error and stops without invoking rows_from_elements,
\* so no ResultSet exists; a successful fetch of zero records ends with the
\* empty ResultSet and the notice of no results.
C6_FailureStopsWithError ==
    /\ FetchFailed =>
          /\ pc = "stopped" /\ raised # "" /\ df = None /\ rows = <<>>
          /\ ui = <<"success", IF raised = "HTTPError" THEN "error_overpass"
                                ELSE "error_unexpected">>
    /\ (pc = "shown" /\ elements = <<>>) => (EmptyOutcome /\ raised = "")

\* The rate limit persisted through the retry and the run stopped on the error.
C6_Witness ==
    /\ FetchFailed /\ Len(responses) = 2 /\ responses[2].status = 429
    /\ pc = "stopped" /\ ui = <<"success", "error_overpass">>

\* overpass_search has returned or raised.
SearchDone == pc \in {"fetched", "shown"} \/ (pc = "stopped" /\ responses # <<>>)

\* At most two requests, the second only after a 429, and none after the second.
AtMostOneRetry ==
    /\ Len(responses) <= 2
    /\ Len(responses) = 2 => responses[1].status = 429
    /\ pc = "retry" => (Len(responses) = 1 /\ responses[1].status = 429)
    /\ Len(responses) = 2 => pc \in {"check", "fetched", "shown", "stopped"}

====
